---------------------------- MODULE Spec2Model ----------------------------
(***************************************************************************)
(* Model of polymorphic_device_types (src/main.cpp): reactions that apply  *)
(* an elementwise device operation to a std::vector<double> through a SYCL *)
(* kernel, called directly and through the type-erased Reaction handle.    *)
(*                                                                         *)
(* The first part of the module is the arithmetic of the element type:     *)
(* C++ double (IEEE 754 binary64, round to nearest, ties to even).  The    *)
(* 53-bit significand does not fit the model checker's integers, so        *)
(* naturals are kept as little-endian sequences of 15-bit limbs.           *)
(***************************************************************************)
EXTENDS Integers, Sequences, FiniteSets, TLC

-----------------------------------------------------------------------------
(* Naturals of arbitrary size: <<l1, l2, ...>> is l1 + l2*Base + ...,       *)
(* without leading zero limbs; <<>> is zero.                                *)

Base == 2^15

Limb(x, i) == IF i <= Len(x) THEN x[i] ELSE 0

RECURSIVE BigNorm(_)
BigNorm(x) ==
  IF x = <<>> THEN x
  ELSE IF x[Len(x)] = 0 THEN BigNorm(SubSeq(x, 1, Len(x) - 1))
  ELSE x

RECURSIVE BigOfNat(_)
BigOfNat(n) == IF n = 0 THEN <<>> ELSE <<n % Base>> \o BigOfNat(n \div Base)

RECURSIVE BigAddFrom(_, _, _, _)
BigAddFrom(x, y, i, c) ==
  IF i > Len(x) /\ i > Len(y)
  THEN (IF c = 0 THEN <<>> ELSE <<c>>)
  ELSE LET s == Limb(x, i) + Limb(y, i) + c
       IN  <<s % Base>> \o BigAddFrom(x, y, i + 1, s \div Base)

BigAdd(x, y) == BigAddFrom(x, y, 1, 0)

RECURSIVE BigSubFrom(_, _, _, _)
BigSubFrom(x, y, i, b) ==
  IF i > Len(x) THEN <<>>
  ELSE LET s == x[i] - Limb(y, i) - b
       IN  IF s < 0 THEN <<s + Base>> \o BigSubFrom(x, y, i + 1, 1)
           ELSE <<s>> \o BigSubFrom(x, y, i + 1, 0)

\* x - y, for x >= y
BigSub(x, y) == BigNorm(BigSubFrom(x, y, 1, 0))

RECURSIVE BigCmpFrom(_, _, _)
BigCmpFrom(x, y, i) ==
  IF i = 0 THEN 0
  ELSE IF x[i] < y[i] THEN -1
  ELSE IF x[i] > y[i] THEN 1
  ELSE BigCmpFrom(x, y, i - 1)

\* -1, 0, 1 as x < y, x = y, x > y
BigCmp(x, y) ==
  IF Len(x) < Len(y) THEN -1
  ELSE IF Len(x) > Len(y) THEN 1
  ELSE BigCmpFrom(x, y, Len(x))

RECURSIVE BigMulSmallFrom(_, _, _, _)
BigMulSmallFrom(x, k, i, c) ==
  IF i > Len(x) THEN (IF c = 0 THEN <<>> ELSE <<c>>)
  ELSE LET p == x[i] * k + c
       IN  <<p % Base>> \o BigMulSmallFrom(x, k, i + 1, p \div Base)

\* x * k, for 0 <= k < Base
BigMulSmall(x, k) == IF k = 0 THEN <<>> ELSE BigMulSmallFrom(x, k, 1, 0)

ZeroLimbs(n) == [i \in 1..n |-> 0]

RECURSIVE BigMulFrom(_, _, _)
BigMulFrom(x, y, i) ==
  IF i > Len(y) THEN <<>>
  ELSE BigAdd(BigNorm(ZeroLimbs(i - 1) \o BigMulSmall(x, y[i])),
              BigMulFrom(x, y, i + 1))

BigMul(x, y) == IF x = <<>> \/ y = <<>> THEN <<>> ELSE BigMulFrom(x, y, 1)

RECURSIVE BigDivSmallFrom(_, _, _, _)
BigDivSmallFrom(x, k, i, r) ==
  IF i = 0 THEN <<>>
  ELSE LET t == r * Base + x[i]
       IN  BigDivSmallFrom(x, k, i - 1, t % k) \o <<t \div k>>

\* floor(x / k), for 0 < k <= Base
BigDivSmall(x, k) == BigNorm(BigDivSmallFrom(x, k, Len(x), 0))

\* x * 2^n
BigShl(x, n) ==
  IF x = <<>> THEN <<>>
  ELSE ZeroLimbs(n \div 15) \o BigMulSmall(x, 2^(n % 15))

\* floor(x / 2^n)
BigShr(x, n) ==
  IF n \div 15 >= Len(x) THEN <<>>
  ELSE BigDivSmall(SubSeq(x, (n \div 15) + 1, Len(x)), 2^(n % 15))

RECURSIVE NatBitLen(_)
NatBitLen(n) == IF n = 0 THEN 0 ELSE 1 + NatBitLen(n \div 2)

BigBitLen(x) == IF x = <<>> THEN 0 ELSE 15 * (Len(x) - 1) + NatBitLen(x[Len(x)])

BigIsOdd(x) == x # <<>> /\ x[1] % 2 = 1

RECURSIVE BigPow10(_)
BigPow10(k) == IF k = 0 THEN <<1>> ELSE BigMulSmall(BigPow10(k - 1), 10)

\* floor(x / 10^k)
RECURSIVE DivPow10(_, _)
DivPow10(x, k) == IF k = 0 THEN x ELSE DivPow10(BigDivSmall(x, 10), k - 1)

\* the value of a small natural kept as limbs
RECURSIVE BigToNat(_)
BigToNat(x) == IF x = <<>> THEN 0 ELSE x[1] + Base * BigToNat(Tail(x))

-----------------------------------------------------------------------------
(* double: a finite binary64 value is (-1)^neg * m * 2^e with m = 0 (and    *)
(* e = 0) or 2^52 <= m < 2^53, so equal values have equal records apart     *)
(* from the sign of zero.  The inputs of the model keep every result inside *)
(* the normal range, so infinities, NaN and subnormals are not represented. *)

DZero(neg) == [neg |-> neg, m |-> <<>>, e |-> 0]

\* the double nearest to (-1)^neg * M * 2^E, ties to even
DRound(neg, M, E) ==
  IF M = <<>> THEN DZero(neg)
  ELSE LET L == BigBitLen(M)
       IN  IF L <= 53
           THEN [neg |-> neg, m |-> BigShl(M, 53 - L), e |-> E - (53 - L)]
           ELSE LET sh   == L - 53
                    q    == BigShr(M, sh)
                    r    == BigSub(M, BigShl(q, sh))
                    half == BigShl(<<1>>, sh - 1)
                    c    == BigCmp(r, half)
                    up   == c = 1 \/ (c = 0 /\ BigIsOdd(q))
                    q2   == IF up THEN BigAdd(q, <<1>>) ELSE q
                IN  IF BigBitLen(q2) = 54
                    THEN [neg |-> neg, m |-> BigShr(q2, 1), e |-> E + sh + 1]
                    ELSE [neg |-> neg, m |-> q2, e |-> E + sh]

\* int -> double (exact: an int has at most 31 significant bits)
DOfInt(i) == IF i < 0 THEN DRound(TRUE, BigOfNat(-i), 0)
             ELSE DRound(FALSE, BigOfNat(i), 0)

\* x * y
DMul(x, y) ==
  IF x.m = <<>> \/ y.m = <<>> THEN DZero(x.neg # y.neg)
  ELSE DRound(x.neg # y.neg, BigMul(x.m, y.m), x.e + y.e)

\* x + y
DAdd(x, y) ==
  IF x.m = <<>> /\ y.m = <<>> THEN DZero(x.neg /\ y.neg)
  ELSE IF x.m = <<>> THEN y
  ELSE IF y.m = <<>> THEN x
  ELSE LET E  == IF x.e < y.e THEN x.e ELSE y.e
           X  == BigShl(x.m, x.e - E)
           Y  == BigShl(y.m, y.e - E)
           c  == BigCmp(X, Y)
       IN  IF x.neg = y.neg THEN DRound(x.neg, BigAdd(X, Y), E)
           ELSE IF c = 0 THEN DZero(FALSE)
           ELSE IF c = 1 THEN DRound(x.neg, BigSub(X, Y), E)
           ELSE DRound(y.neg, BigSub(Y, X), E)

-----------------------------------------------------------------------------
(* operator<<(std::ostream&, double) with the stream's default format: six  *)
(* significant decimal digits, correctly rounded, trailing zeros dropped.   *)
(* The text is represented by the number it denotes:                        *)
(* (-1)^neg * digits * 10^exp, digits not a multiple of ten.                *)

Precision == 6

\* v >= 10^p, for v = Num / Den
GePow10(Num, Den, p) ==
  IF p >= 0 THEN BigCmp(Num, BigMul(Den, BigPow10(p))) >= 0
  ELSE BigCmp(BigMul(Num, BigPow10(-p)), Den) >= 0

\* the p with 10^p <= Num / Den < 10^(p+1)
RECURSIVE Exp10From(_, _, _)
Exp10From(Num, Den, p) ==
  IF GePow10(Num, Den, p + 1) THEN Exp10From(Num, Den, p + 1)
  ELSE IF ~GePow10(Num, Den, p) THEN Exp10From(Num, Den, p - 1)
  ELSE p

RECURSIVE StripZeros(_, _, _)
StripZeros(neg, n, k) ==
  IF n % 10 = 0 THEN StripZeros(neg, n \div 10, k + 1)
  ELSE [neg |-> neg, digits |-> n, exp |-> k]

DPrint(x) ==
  IF x.m = <<>> THEN [neg |-> x.neg, digits |-> 0, exp |-> 0]
  ELSE LET Num == IF x.e >= 0 THEN BigShl(x.m, x.e) ELSE x.m
           sh  == IF x.e >= 0 THEN 0 ELSE -x.e
           Den == BigShl(<<1>>, sh)
           \* 2^(L-1) <= x < 2^L, and log10(2) is a little over 30102/100000
           L   == BigBitLen(x.m) + x.e
           p   == Exp10From(Num, Den, ((L - 1) * 30102) \div 100000)
           sc  == Precision - 1 - p
           N2  == IF sc >= 0 THEN BigMul(Num, BigPow10(sc)) ELSE Num
           D2  == IF sc >= 0 THEN Den ELSE BigMul(Den, BigPow10(-sc))
           \* floor(N2 / D2): D2 is 2^sh, times 10^(-sc) when sc < 0
           q   == IF sc >= 0 THEN BigShr(N2, sh) ELSE DivPow10(BigShr(N2, sh), -sc)
           n   == BigToNat(q)
           r2  == BigMulSmall(BigSub(N2, BigMul(q, D2)), 2)
           c   == BigCmp(r2, D2)
           up  == c = 1 \/ (c = 0 /\ n % 2 = 1)
       IN  StripZeros(x.neg, IF up THEN n + 1 ELSE n, -sc)

\* the double a decimal literal n * 10^(-k) denotes (the nearest one)
DOfDecimal(n, k) ==
  LET X      == BigShl(BigOfNat(n), 90)
      q      == DivPow10(X, k)
      sticky == IF BigMul(q, BigPow10(k)) = X THEN <<>> ELSE <<1>>
  IN  DRound(FALSE, BigAdd(BigShl(q, 1), sticky), -91)

-----------------------------------------------------------------------------
(* Conversions of ReactionBase::react: size_t io.size() stored in the       *)
(* 32-bit int N (the low 32 bits, two's complement), and N converted back   *)
(* to size_t by sycl::range<1>(N) (sign extension to 64 bits).              *)

IntBits == 32
SizeBits == 64

\* x mod 2^n
BigMod2(x, n) == BigSub(x, BigShl(BigShr(x, n), n))

IntOfSize(sz) ==
  LET lo == BigMod2(sz, IntBits)
  IN  IF BigBitLen(lo) < IntBits THEN BigToNat(lo)
      ELSE -BigToNat(BigSub(BigSub(BigShl(<<1>>, IntBits), lo), <<1>>)) - 1

\* the range rounded up to one work-item
SizeOfIntAtLeastOne(n) == IF n <= 0 THEN <<1>> ELSE BigOfNat(n)

SizeOfInt(n) ==
  IF n >= 0 THEN BigOfNat(n)
  ELSE BigSub(BigSub(BigShl(<<1>>, SizeBits), BigOfNat(-(n + 1))), <<1>>)

-----------------------------------------------------------------------------
(* The program.  main is generalised: any initial buffer, any constructor  *)
(* arguments, any sequence of up to MaxCalls direct react calls on the      *)
(* objects a and b, then the reset and the same sequence through handles    *)
(* made by make_reaction.                                                   *)

MaxLen == 2        \* longest buffer run under the free schedule
MaxCalls == 2      \* react calls per phase of main
MaxFaults == 1     \* executor failures injected per run
N32 == 32          \* const int N = 32 of main

VARIABLES
  d,          \* main's std::vector<double> d
  init,       \* what std::iota wrote into d (the buffer is reset to it)
  pa, pb,     \* the constructor arguments of every ReactionA / ReactionB
  sched,      \* the executor: work-items in "any" order, or "inorder"
  heap,       \* the reaction objects: 1 is a, 2 is b, the rest make_shared's
  reactions,  \* std::vector<std::shared_ptr<Reaction>>: pointers into heap
  k,          \* position of main's for loop in reactions
  trace,      \* the objects main has called react on directly, in order
  direct,     \* d as the direct calls left it, kept at the reset
  out,        \* the lines lambda_print has written
  pc,         \* main: "direct", "handles", "done", "thrown", "terminated"
  rpc,        \* react: "idle", "entered", "running", "waited", "unwinding"
  call,       \* the activation of react that is running or ran last
  b_io,       \* the sycl::buffer of the running call
  task,       \* the work-items of the kernel: pending, loaded, done, aborted
  reg,        \* the element each work-item has read
  faults      \* executor failures so far

vars == <<d, init, pa, pb, sched, heap, reactions, k, trace, direct, out, pc,
          rpc, call, b_io, task, reg, faults>>

\* the elements, factors and offsets the runs are drawn from
Huge == DRound(FALSE, <<1>>, 60)
Elements == {DOfInt(0), DOfInt(3), Huge}
AVals == {DOfDecimal(1, 1), DOfInt(2)}
BVals == {-1, 2}

RECURSIVE SeqsOf(_, _)
SeqsOf(S, n) ==
  IF n = 0 THEN {<<>>}
  ELSE LET shorter == SeqsOf(S, n - 1)
       IN  shorter \cup {Append(t, x) : t \in {u \in shorter : Len(u) = n - 1}, x \in S}

\* std::iota(first, last, start) over n doubles, start an int
Iota(start, n) == [i \in 1..n |-> DOfInt(start + i - 1)]

\* lambda_print: one line, every element through operator<<
lambda_print(v) == [i \in 1..Len(v) |-> DPrint(v[i])]

\* DeviceReactionA::apply, DeviceReactionB::apply
ApplyA(data, x) == DMul(x, data.a)

\* d -= b
ApplyBMinus(data, x) == DAdd(x, DOfInt(-data.b))

ApplyB(data, x) == DAdd(x, DOfInt(data.b))

apply(device_type, x) ==
  IF device_type.kind = "DeviceReactionA" THEN ApplyA(device_type, x)
  ELSE ApplyB(device_type, x)

\* the constructors ReactionA(const double a), ReactionB(const int b)
ReactionA(a) == [type |-> "ReactionA", data |-> [kind |-> "DeviceReactionA", a |-> a]]

ReactionB(b) == [type |-> "ReactionB", data |-> [kind |-> "DeviceReactionB", b |-> b]]

\* a fresh device type instead of the object's own
get_default_data(obj) ==
  IF obj.type = "ReactionA" THEN [kind |-> "DeviceReactionA", a |-> DOfInt(1)]
  ELSE [kind |-> "DeviceReactionB", b |-> 0]

get_device_data(obj) == obj.data

\* react as class member lookup finds it for an object of the class
MemberReact(type) ==
  CASE type = "ReactionA" -> "ReactionBase<ReactionA>::react"
    [] type = "ReactionB" -> "ReactionBase<ReactionB>::react"
    [] OTHER -> "Reaction::react"

\* no override: the vtable keeps the empty Reaction::react
VtableBase(type) == "Reaction::react"

\* the final overrider of Reaction::react in the object's vtable
Vtable(type) ==
  CASE type = "ReactionA" -> "ReactionBase<ReactionA>::react"
    [] type = "ReactionB" -> "ReactionBase<ReactionB>::react"
    [] OTHER -> "Reaction::react"

\* make_reaction<REACTION>(args) for the arguments of the object o
make_reaction(o) ==
  IF heap[o].type = "ReactionA" THEN ReactionA(pa) ELSE ReactionB(pb)

NoCall ==
  [self |-> 0, via |-> "none", body |-> "none", device_type |-> [kind |-> "none"],
   size |-> <<>>, N |-> 0, range |-> <<>>, pre |-> <<>>, err |-> "none",
   nsubmit |-> 0, outcome |-> "none"]

Init ==
  /\ \/ sched = "any" /\ init \in SeqsOf(Elements, MaxLen) /\ pb \in BVals
     \/ sched = "inorder" /\ init \in {Iota(0, N32), Iota(1, 3)} /\ pb = 2
  /\ pa \in AVals
  /\ d = init
  /\ heap = <<ReactionA(pa), ReactionB(pb)>>
  /\ reactions = <<>>
  /\ k = 0
  /\ trace = <<>>
  /\ direct = <<>>
  /\ out = <<lambda_print(init)>>
  /\ pc = "direct"
  /\ rpc = "idle"
  /\ call = NoCall
  /\ b_io = <<>>
  /\ task = <<>>
  /\ reg = <<>>
  /\ faults = 0

\* ReactionBase::react up to the construction of b_io
ReactEntry(o, via, body) ==
  /\ call' = [self |-> o, via |-> via, body |-> body,
              device_type |-> get_device_data(heap[o]),
              size |-> BigOfNat(Len(d)), N |-> IntOfSize(BigOfNat(Len(d))),
              range |-> <<>>, pre |-> d, err |-> "none", nsubmit |-> 0,
              outcome |-> "running"]
  /\ b_io' = d
  /\ rpc' = "entered"
  /\ task' = <<>>
  /\ reg' = <<>>

\* react runs on the other of the two objects
CallDirectOther(o) ==
  /\ pc = "direct"
  /\ rpc = "idle"
  /\ Len(trace) < MaxCalls
  /\ ReactEntry(3 - o, "direct", MemberReact(heap[3 - o].type))
  /\ trace' = Append(trace, o)
  /\ UNCHANGED <<d, init, pa, pb, sched, heap, reactions, k, direct, out, pc, faults>>

\* a.react(queue, d); b.react(queue, d)
CallDirect(o) ==
  /\ pc = "direct"
  /\ rpc = "idle"
  /\ Len(trace) < MaxCalls
  /\ ReactEntry(o, "direct", MemberReact(heap[o].type))
  /\ trace' = Append(trace, o)
  /\ UNCHANGED <<d, init, pa, pb, sched, heap, reactions, k, direct, out, pc, faults>>

\* the last work-item is left out
WorkItemsShort(range) == 1..(BigToNat(range) - 1)

\* the work-items the kernel range launches
WorkItems(range) == 1..BigToNat(range)

\* queue.submit: the accessor, and parallel_for over sycl::range<1>(N)
Submit ==
  /\ rpc = "entered"
  /\ LET range == SizeOfInt(call.N)
     IN  /\ call' = [call EXCEPT !.range = range, !.nsubmit = @ + 1]
         /\ task' = [i \in WorkItems(range) |-> "pending"]
         /\ reg' = [i \in WorkItems(range) |-> DZero(FALSE)]
  /\ rpc' = "running"
  /\ UNCHANGED <<d, init, pa, pb, sched, heap, reactions, k, trace, direct, out,
                 pc, b_io, faults>>

\* queue.submit throws: the executor could not launch the kernel
SubmitFail ==
  /\ rpc = "entered"
  /\ faults < MaxFaults
  /\ call' = [call EXCEPT !.err = "launch", !.nsubmit = @ + 1]
  /\ rpc' = "unwinding"
  /\ faults' = faults + 1
  /\ UNCHANGED <<d, init, pa, pb, sched, heap, reactions, k, trace, direct, out,
                 pc, b_io, task, reg>>

\* the executor may start work-item i now
Schedulable(i) == sched = "any" \/ \A j \in 1..(i - 1) : task[j] = "done"

\* a work-item touches the element before its own
ElementOfNeighbour(id) == IF id > 1 THEN id - 1 ELSE id

\* the index of a_io that work-item id touches: a_io[id]
ElementOf(id) == id

\* work-item i reads its element
TaskLoad(i) ==
  /\ rpc = "running"
  /\ task[i] = "pending"
  /\ Schedulable(i)
  /\ ElementOf(i) \in DOMAIN b_io
  /\ reg' = [reg EXCEPT ![i] = b_io[ElementOf(i)]]
  /\ task' = [task EXCEPT ![i] = "loaded"]
  /\ UNCHANGED <<d, init, pa, pb, sched, heap, reactions, k, trace, direct, out,
                 pc, rpc, call, b_io, faults>>

\* work-item i writes device_type.apply of what it read
TaskStore(i) ==
  /\ rpc = "running"
  /\ task[i] = "loaded"
  /\ b_io' = [b_io EXCEPT ![ElementOf(i)] = apply(call.device_type, reg[i])]
  /\ task' = [task EXCEPT ![i] = "done"]
  /\ UNCHANGED <<d, init, pa, pb, sched, heap, reactions, k, trace, direct, out,
                 pc, rpc, call, reg, faults>>

\* work-item i faults at its access to a_io: the kernel stops, the error is
\* asynchronous
TaskFault(i) ==
  /\ rpc = "running"
  /\ task[i] = "pending"
  /\ Schedulable(i)
  /\ faults < MaxFaults
  /\ call' = [call EXCEPT !.err = "async"]
  /\ task' = [j \in DOMAIN task |-> IF task[j] = "done" THEN "done" ELSE "aborted"]
  /\ faults' = faults + 1
  /\ UNCHANGED <<d, init, pa, pb, sched, heap, reactions, k, trace, direct, out,
                 pc, rpc, b_io, reg>>

\* nothing is awaited
KernelNotAwaited == TRUE

\* the event of the submission is complete
KernelFinished == \A i \in DOMAIN task : task[i] \in {"done", "aborted"}

\* wait_and_throw, no asynchronous error outstanding
Wait ==
  /\ rpc = "running"
  /\ KernelFinished
  /\ call.err = "none"
  /\ rpc' = "waited"
  /\ UNCHANGED <<d, init, pa, pb, sched, heap, reactions, k, trace, direct, out,
                 pc, call, b_io, task, reg, faults>>

\* wait_and_throw with an asynchronous error, on a queue constructed without
\* an async_handler: SYCL 1.2.1 drops the error
WaitDropsError ==
  /\ rpc = "running"
  /\ KernelFinished
  /\ call.err = "async"
  /\ rpc' = "waited"
  /\ UNCHANGED <<d, init, pa, pb, sched, heap, reactions, k, trace, direct, out,
                 pc, call, b_io, task, reg, faults>>

\* ... and SYCL 2020 hands it to the default handler, which ends the program
WaitTerminates ==
  /\ rpc = "running"
  /\ KernelFinished
  /\ call.err = "async"
  /\ rpc' = "idle"
  /\ pc' = "terminated"
  /\ call' = [call EXCEPT !.outcome = "terminated"]
  /\ UNCHANGED <<d, init, pa, pb, sched, heap, reactions, k, trace, direct, out,
                 b_io, task, reg, faults>>

\* the end of react: ~buffer copies b_io back to io; main prints the line
Return ==
  /\ rpc = "waited"
  /\ d' = b_io
  /\ rpc' = "idle"
  /\ call' = [call EXCEPT !.outcome = "returned"]
  /\ out' = Append(out, lambda_print(b_io))
  /\ k' = IF call.via = "handle" THEN k + 1 ELSE k
  /\ UNCHANGED <<init, pa, pb, sched, heap, reactions, trace, direct, pc, b_io,
                 task, reg, faults>>

\* the exception of submit leaves react (~buffer runs) and then main, which
\* has no handler
Unwind ==
  /\ rpc = "unwinding"
  /\ d' = b_io
  /\ rpc' = "idle"
  /\ call' = [call EXCEPT !.outcome = "thrown"]
  /\ pc' = "thrown"
  /\ UNCHANGED <<init, pa, pb, sched, heap, reactions, k, trace, direct, out,
                 b_io, task, reg, faults>>

\* std::iota again, and reactions[i] = make_reaction<...>(...) for every
\* direct call made
Reset ==
  /\ pc = "direct"
  /\ rpc = "idle"
  /\ Len(trace) >= 1
  /\ direct' = d
  /\ d' = init
  /\ heap' = heap \o [i \in 1..Len(trace) |-> make_reaction(trace[i])]
  /\ reactions' = [i \in 1..Len(trace) |-> Len(heap) + i]
  /\ k' = 1
  /\ pc' = "handles"
  /\ UNCHANGED <<init, pa, pb, sched, trace, out, rpc, call, b_io, task, reg, faults>>

\* rx->react(queue, d) of the for loop
CallHandle ==
  /\ pc = "handles"
  /\ rpc = "idle"
  /\ k <= Len(reactions)
  /\ LET rx   == reactions[k]
         body == Vtable(heap[rx].type)
     IN  IF body = "Reaction::react"
         THEN /\ call' = [NoCall EXCEPT !.self = rx, !.via = "handle", !.body = body,
                                        !.pre = d, !.outcome = "returned"]
              /\ out' = Append(out, lambda_print(d))
              /\ k' = k + 1
              /\ UNCHANGED <<rpc, b_io, task, reg>>
         ELSE /\ ReactEntry(rx, "handle", body)
              /\ UNCHANGED <<out, k>>
  /\ UNCHANGED <<d, init, pa, pb, sched, heap, reactions, trace, direct, pc, faults>>

\* return 0
Finish ==
  /\ pc = "handles"
  /\ rpc = "idle"
  /\ k > Len(reactions)
  /\ pc' = "done"
  /\ UNCHANGED <<d, init, pa, pb, sched, heap, reactions, k, trace, direct, out,
                 rpc, call, b_io, task, reg, faults>>

\* the steps of the program on an executor that does not fail
Next ==
  \/ \E o \in {1, 2} : CallDirect(o)
  \/ Submit
  \/ \E i \in DOMAIN task : TaskLoad(i)
  \/ \E i \in DOMAIN task : TaskStore(i)
  \/ Wait
  \/ Return
  \/ Reset
  \/ CallHandle
  \/ Finish

Spec == Init /\ [][Next]_vars

\* the same program on a device that can fail to launch a kernel and whose
\* work-items can fault, run under the free schedule
InitFaulty ==
  /\ Init
  /\ sched = "any"
  /\ init \in SeqsOf({DOfInt(3)}, MaxLen)
  /\ pa = DOfInt(2)
  /\ pb = 2

NextFaulty ==
  \/ Next
  \/ SubmitFail
  \/ \E i \in DOMAIN task : TaskFault(i)
  \/ WaitDropsError
  \/ WaitTerminates
  \/ Unwind

SpecFaulty == InitFaulty /\ [][NextFaulty]_vars

-----------------------------------------------------------------------------
(* The launch of react on vectors too long to write down: only io.size()   *)
(* is kept, in call.size, and the two steps compute what react computes     *)
(* from it.                                                                 *)

MaxDelta == 8      \* sizes are taken this far around each power of two

Sizes ==
  {BigOfNat(j) : j \in 0..MaxDelta}
    \cup {BigSub(BigAdd(BigShl(<<1>>, e), BigOfNat(j)), BigOfNat(MaxDelta \div 2)) :
            e \in {IntBits - 1, IntBits, IntBits + 1, SizeBits - 1}, j \in 0..MaxDelta}

InitRange ==
  /\ d = <<>>
  /\ init = <<>>
  /\ pa = DOfInt(2)
  /\ pb = 2
  /\ sched = "any"
  /\ heap = <<ReactionA(pa), ReactionB(pb)>>
  /\ reactions = <<>>
  /\ k = 0
  /\ trace = <<>>
  /\ direct = <<>>
  /\ out = <<>>
  /\ pc = "direct"
  /\ rpc = "idle"
  /\ \E sz \in Sizes : call = [NoCall EXCEPT !.size = sz]
  /\ b_io = <<>>
  /\ task = <<>>
  /\ reg = <<>>
  /\ faults = 0

\* const int N = io.size()
RangeEntry ==
  /\ rpc = "idle"
  /\ call.outcome = "none"
  /\ call' = [call EXCEPT !.N = IntOfSize(call.size), !.outcome = "running"]
  /\ rpc' = "entered"
  /\ UNCHANGED <<d, init, pa, pb, sched, heap, reactions, k, trace, direct, out,
                 pc, b_io, task, reg, faults>>

\* parallel_for(sycl::range<1>(N), ...)
RangeSubmit ==
  /\ rpc = "entered"
  /\ call' = [call EXCEPT !.range = SizeOfInt(call.N), !.nsubmit = @ + 1]
  /\ rpc' = "running"
  /\ UNCHANGED <<d, init, pa, pb, sched, heap, reactions, k, trace, direct, out,
                 pc, b_io, task, reg, faults>>

NextRange == RangeEntry \/ RangeSubmit

SpecRange == InitRange /\ [][NextRange]_vars

-----------------------------------------------------------------------------
(* Properties.                                                             *)

\* the transforms as the specification writes them: x * a and x + b
TimesA(x) == DMul(x, pa)
PlusB(x) == DAdd(x, DOfInt(pb))

\* react has returned normally and main has not touched d since
JustReturned ==
  /\ rpc = "idle"
  /\ call.outcome = "returned"
  /\ call.via = "direct" => pc = "direct"

\* the text operator<< writes for the decimal n / 10^places
Decimal(n, places) ==
  IF n = 0 THEN [neg |-> FALSE, digits |-> 0, exp |-> 0]
  ELSE StripZeros(FALSE, n, -places)

\* C1: a react of a ReactionA(a) during which the executor did not fail
\* returns with a buffer of the same length in which every element is the
\* old element times a.
Thm_C1 ==
  (JustReturned /\ call.err = "none" /\ heap[call.self].type = "ReactionA")
    => /\ Len(d) = Len(call.pre)
       /\ \A i \in 1..Len(call.pre) : d[i] = TimesA(call.pre[i])

Wit_C1 ==
  /\ JustReturned
  /\ call.err = "none"
  /\ heap[call.self].type = "ReactionA"
  /\ sched = "any"
  /\ Len(d) = MaxLen
  /\ \A i \in 1..Len(d) : d[i] # call.pre[i]

\* C2: a react of a ReactionB(b) during which the executor did not fail
\* returns with a buffer of the same length in which every element is the
\* old element plus b.
Thm_C2 ==
  (JustReturned /\ call.err = "none" /\ heap[call.self].type = "ReactionB")
    => /\ Len(d) = Len(call.pre)
       /\ \A i \in 1..Len(call.pre) : d[i] = PlusB(call.pre[i])

Wit_C2 ==
  /\ JustReturned
  /\ call.err = "none"
  /\ heap[call.self].type = "ReactionB"
  /\ sched = "any"
  /\ Len(d) = MaxLen
  /\ d[1] # call.pre[1]

Cex_C4 ==
  (pc = "direct" /\ rpc = "idle" /\ faults = 0)
    => /\ trace = <<1, 2>> =>
            \A i \in 1..Len(init) : d[i] = PlusB(TimesA(init[i]))
       /\ trace = <<2, 1>> =>
            \A i \in 1..Len(init) : d[i] = TimesA(PlusB(init[i]))
       /\ (trace = <<1, 2>> /\ pb # 0 /\ pa # DOfInt(1)) =>
            \A i \in 1..Len(init) : d[i] # TimesA(PlusB(init[i]))
       /\ (trace = <<1, 2>> /\ init = Iota(0, N32) /\ pa = DOfDecimal(1, 1) /\ pb = 2) =>
            out[3] = [i \in 1..N32 |-> Decimal(20 + i - 1, 1)]

\* DRound(neg, M, E) lost nothing: the result is M * 2^E exactly
IsExact(r, M, E) == r.e <= E \/ BigShl(r.m, r.e - E) = M

MulIsExact(x, y) ==
  x.m = <<>> \/ y.m = <<>> \/ IsExact(DMul(x, y), BigMul(x.m, y.m), x.e + y.e)

AddIsExact(x, y) ==
  \/ x.m = <<>>
  \/ y.m = <<>>
  \/ LET E == IF x.e < y.e THEN x.e ELSE y.e
         X == BigShl(x.m, x.e - E)
         Y == BigShl(y.m, y.e - E)
         M == IF x.neg = y.neg THEN BigAdd(X, Y)
              ELSE IF BigCmp(X, Y) >= 0 THEN BigSub(X, Y) ELSE BigSub(Y, X)
     IN  M = <<>> \/ IsExact(DAdd(x, y), M, E)

\* no rounding in either order of the two operations on x
BothOrdersExact(x) ==
  /\ MulIsExact(x, pa)
  /\ AddIsExact(TimesA(x), DOfInt(pb))
  /\ AddIsExact(x, DOfInt(pb))
  /\ MulIsExact(PlusB(x), pa)

\* C4 as amended: the results follow the call order, each operation rounded
\* to double; they differ when b*(a-1) is not zero and nothing was rounded;
\* main's run prints 0 0.1 ... 3.1 and then 2 2.1 ... 5.1, although element
\* 14 is not the double nearest 3.4.
Thm_C4 ==
  (pc = "direct" /\ rpc = "idle" /\ faults = 0)
    => /\ trace = <<1, 2>> =>
            \A i \in 1..Len(init) : d[i] = PlusB(TimesA(init[i]))
       /\ trace = <<2, 1>> =>
            \A i \in 1..Len(init) : d[i] = TimesA(PlusB(init[i]))
       /\ (trace = <<1, 2>> /\ pb # 0 /\ pa # DOfInt(1)) =>
            \A i \in 1..Len(init) :
              BothOrdersExact(init[i]) => d[i] # TimesA(PlusB(init[i]))
       /\ (trace = <<1, 2>> /\ init = Iota(0, N32) /\ pa = DOfDecimal(1, 1) /\ pb = 2) =>
            /\ out[2] = [i \in 1..N32 |-> Decimal(i - 1, 1)]
            /\ out[3] = [i \in 1..N32 |-> Decimal(20 + i - 1, 1)]
            /\ d[15] # DOfDecimal(34, 1)

Wit_C4 ==
  /\ pc = "direct"
  /\ rpc = "idle"
  /\ faults = 0
  /\ trace = <<1, 2>>
  /\ init = Iota(0, N32)
  /\ pa = DOfDecimal(1, 1)
  /\ pb = 2
  /\ Len(out) = 3

\* C5: a handle made by make_reaction<R>(args) runs R's override on R's own
\* data, and main's loop over the handles leaves the buffer, and prints the
\* lines, that the same direct calls left and printed.
Thm_C5 ==
  /\ pc \in {"handles", "done"} =>
       \A i \in 1..Len(reactions) :
         /\ reactions[i] > 2
         /\ heap[reactions[i]].type = heap[trace[i]].type
  /\ (call.via = "handle" /\ heap[call.self].type = "ReactionA") =>
       /\ call.body = "ReactionBase<ReactionA>::react"
       /\ call.device_type = [kind |-> "DeviceReactionA", a |-> pa]
  /\ (call.via = "handle" /\ heap[call.self].type = "ReactionB") =>
       /\ call.body = "ReactionBase<ReactionB>::react"
       /\ call.device_type = [kind |-> "DeviceReactionB", b |-> pb]
  /\ (pc = "done" /\ faults = 0) =>
       /\ d = direct
       /\ \A j \in 1..Len(trace) : out[1 + Len(trace) + j] = out[1 + j]

Wit_C5 ==
  /\ pc = "done"
  /\ faults = 0
  /\ sched = "any"
  /\ trace = <<1, 2>>
  /\ Len(d) = MaxLen
  /\ d # init
  /\ d = direct

\* C6: while a kernel runs, under every interleaving, each element is
\* decided by its own work-item alone: untouched until that work-item
\* stores, and then apply of the element's old value.
Thm_C6 ==
  rpc \in {"running", "waited"} =>
    /\ Len(b_io) = Len(call.pre)
    /\ DOMAIN task = DOMAIN call.pre
    /\ \A i \in DOMAIN task :
         /\ task[i] \in {"pending", "aborted"} => b_io[i] = call.pre[i]
         /\ task[i] = "loaded" => reg[i] = call.pre[i] /\ b_io[i] = call.pre[i]
         /\ task[i] = "done" => b_io[i] = apply(call.device_type, call.pre[i])

\* a later work-item has finished while an earlier one is between its read
\* and its write
Wit_C6 ==
  /\ rpc = "running"
  /\ \E i, j \in DOMAIN task :
       /\ i < j
       /\ task[i] = "loaded"
       /\ task[j] = "done"
       /\ b_io[j] # call.pre[j]

\* C7: react does not get past wait_and_throw, and does not return, while a
\* work-item is pending or running; when it returns d holds the buffer of
\* the device, with every finished work-item's result, and all of them when
\* the executor did not fail.
Thm_C7 ==
  /\ rpc = "waited" => \A i \in DOMAIN task : task[i] \notin {"pending", "loaded"}
  /\ (JustReturned /\ call.body # "Reaction::react") =>
       /\ \A i \in DOMAIN task : task[i] \notin {"pending", "loaded"}
       /\ d = b_io
       /\ \A i \in DOMAIN task :
            task[i] = "done" => d[i] = apply(call.device_type, call.pre[i])
       /\ call.err = "none" =>
            /\ DOMAIN task = DOMAIN d
            /\ \A i \in DOMAIN task : task[i] = "done"

Wit_C7 ==
  /\ JustReturned
  /\ call.err = "none"
  /\ sched = "any"
  /\ Len(d) = MaxLen
  /\ \A i \in DOMAIN task : task[i] = "done"
  /\ d # call.pre

\* C8 as claimed: a react during which the launch failed or a work-item
\* faulted ends by throwing to its caller, after one submission at most.
Cex_C8 ==
  call.err # "none" =>
    /\ call.outcome \in {"running", "thrown"}
    /\ call.nsubmit <= 1

\* C9: every reaction keeps the data of its construction; k direct calls on
\* the same object apply its transform k times; multiply-by-2 twice on
\* [1, 2, 3] gives [4, 8, 12].
Thm_C9 ==
  /\ \A o \in DOMAIN heap :
       heap[o] = IF heap[o].type = "ReactionA" THEN ReactionA(pa) ELSE ReactionB(pb)
  /\ (pc = "direct" /\ rpc = "idle" /\ faults = 0 /\ trace = <<1, 1>>) =>
       \A i \in 1..Len(init) : d[i] = TimesA(TimesA(init[i]))
  /\ (pc = "direct" /\ rpc = "idle" /\ faults = 0 /\ trace = <<2, 2>>) =>
       \A i \in 1..Len(init) : d[i] = PlusB(PlusB(init[i]))
  /\ (pc = "direct" /\ rpc = "idle" /\ trace = <<1, 1>> /\ init = Iota(1, 3)
        /\ pa = DOfInt(2)) =>
       d = <<DOfInt(4), DOfInt(8), DOfInt(12)>>

Wit_C9 ==
  /\ pc = "direct"
  /\ rpc = "idle"
  /\ trace = <<1, 1>>
  /\ init = Iota(1, 3)
  /\ pa = DOfInt(2)
  /\ d = <<DOfInt(4), DOfInt(8), DOfInt(12)>>

\* C10 as claimed: the range react launches is the buffer's length, for
\* every length.
Cex_C10 == rpc = "running" => call.range = call.size

=============================================================================
